---- MODULE Spec2Model ----
(***************************************************************************)
(* Model of the wf request dispatcher (src/wf.go): Web.ServeHTTP with its  *)
(* CORS preflight, first-match handler selection, timeout resolution,      *)
(* connection deadlines, body read, Parse, Handle and Response steps.      *)
(* Times are in milliseconds.                                              *)
(***************************************************************************)
EXTENDS Integers, Sequences, FiniteSets, TLC

\* ------------------------------------------------------------------ bounds
MaxHandlers == 2
MaxTime == 160
TimeStep == 50
MaxPathLen == 5
MaxParts == 2
MaxCriteria == 3
MaxRequests == 2

\* ------------------------------------------------------- program constants
DefaultTimeout == 1000
writeDeadlineExtension == 100
StatusAccepted == 202
StatusNotAcceptable == 406
StatusInternalServerError == 500
StatusBadRequest == 400
StatusOK == 200
itemSize == 6

\* ------------------------------------------------------------- input sets
Methods == {"GET", "OPTIONS"}
Paths == {"/a", "/b"}
Origins == {"http://o"}
\* per-handler Timeout fields and SetTimeout arguments (time.Duration is signed)
Overrides == {0, 50}
SetTimeoutArgs == {0, 100}
\* Coded Errors a Handle may return; CodedError.Code is any int, 0 its zero value
Codes == {0, 401, 500}
ErrTexts == {"timeout"}
\* errors a Parse may return
ParseErrs == {"bad input"}

VARIABLES
  handlers,      \* Web.handlers: sequence of handlers, fixed by NewWeb
  allowCORS,     \* Web.allowCORS
  timeout,       \* package variable timeout
  now,           \* the clock
  pc,            \* where ServeHTTP is: idle, reading, parsing, handling, responding, done
  request,       \* the request being served
  h,             \* index of the handler findHandler returned, 0 for nil
  setting,       \* withTimeout's setting: the effective timeout of the request
  deadline,      \* ctx.Deadline() of the context passed to Handle
  readDeadline,  \* the connection's read deadline
  writeDeadline, \* the connection's write deadline
  err,           \* the error io.ReadAll or Parse returned, NoErr for nil
  e,             \* the *CodedError Handle returned, NoError for nil
  handleEnd,     \* the time Handle returned, Never before
  status,        \* status written by WriteHeader (or implied by Write), 0 if none
  body,          \* what was written with Write
  headers,       \* response headers set
  calls,         \* handler capabilities invoked for this request, in order
  written,       \* calls made on the http.ResponseWriter for this request, in order
  cancelled,     \* ServeHTTP's deferred cancel() has run for this request
  logged,        \* level of the log entry written for this request, "" if none
  client,        \* what the client observes: waiting, response, EOF
  \* an event stream: ServerSentEventsHandler.Response and the producer of its channel
  ctxDone,       \* ctx.Done() of the context passed to Handle is closed
  clientGone,    \* the client went away: request.Context() is cancelled
  deadlinePassed, \* the deadline of the context passed to Handle has passed
  writeExpired,  \* the connection's write deadline has passed
  producer,      \* where the producer (pass) is: select, send, returned; none without stream
  item,          \* iterations of the producer's loop that are over
  sending,       \* the event the producer is blocked sending on ch
  sent,          \* the events received from ch so far, in order
  transport,     \* where Response is: start, range, write, flush, returned; none without stream
  me,            \* Response's loop variable
  out,           \* what Response wrote to the writer, and its flushes, in order
  streamHeader,  \* headers Response set
  flushErr,      \* rc.Flush returned an error
  \* requests served concurrently, one goroutine running ServeHTTP for each
  serving,       \* per request: where its ServeHTTP is, its request, its context
  sinks,         \* per request: the calls made on its http.ResponseWriter, in order
  \* one call of a library function
  fn,            \* the function called
  args,          \* its arguments
  called,        \* the call has returned
  ret            \* what it returned

dispatcherVars ==
  <<handlers, allowCORS, timeout, now, pc, request, h, setting, deadline,
    readDeadline, writeDeadline, err, e, handleEnd, status, body, headers,
    calls, written, cancelled, logged, client>>

sseVars == <<ctxDone, clientGone, deadlinePassed, writeExpired, producer, item, sending, sent, transport, me,
             out, streamHeader, flushErr>>

libVars == <<fn, args, called, ret>>

\* the variables a step of the dispatcher, or of a stream, leaves alone
concVars == <<serving, sinks>>

outsideDispatcher == <<sseVars, libVars, concVars>>

outsideStream == <<libVars, concVars>>

vars == <<dispatcherVars, sseVars, libVars, concVars>>

NoErr == ""
ErrDeadlineExceeded == "i/o timeout"
ErrConnection == "connection reset"
NoError == [Code |-> 0, Err |-> ""]
Never == -1
NoRequest == [method |-> "", path |-> "", origin |-> "", buffered |-> FALSE]

\* --------------------------------------------------------------- matchers
Exact(method, path) == [kind |-> "Exact", method |-> method, path |-> path]

MatchAll(criteria) == [kind |-> "MatchAll", criteria |-> criteria]

ExactMatches(m, req) == req.path = m.path /\ req.method = m.method

RECURSIVE MatchAllFrom(_, _, _)
MatchAllFrom(criteria, i, req) ==
  IF i > Len(criteria) THEN TRUE
  ELSE IF ~ExactMatches(criteria[i], req) THEN FALSE
  ELSE MatchAllFrom(criteria, i + 1, req)

Match(hd, req) ==
  IF hd.matcher.kind = "Exact" THEN ExactMatches(hd.matcher, req)
  ELSE MatchAllFrom(hd.matcher.criteria, 1, req)

Matchers == {Exact("GET", "/a"), MatchAll(<<>>)}

JSONContentType == "application/json; charset=utf-8"

\* the content type a handler of the model is constructed with
DeclaredContentType(matcher) ==
  IF matcher.kind = "Exact" THEN JSONContentType ELSE "text/plain"

NewClosureHandler(matcher, t) ==
  [matcher |-> matcher, Timeout |-> t, contentType |-> DeclaredContentType(matcher)]

ResponseContentType(hd) == hd.contentType

TimeoutOptional(hd) == hd.Timeout

HandlerSet == {NewClosureHandler(m, t) : m \in Matchers, t \in Overrides}

HandlerLists == UNION {[1..n -> HandlerSet] : n \in 0..MaxHandlers}

\* ------------------------------------------------------------- dispatcher
\* mutant: the per-handler override is ignored
withTimeoutDefaultOnly(config) == timeout

withTimeout(config) ==
  IF TimeoutOptional(config) # 0 THEN TimeoutOptional(config) ELSE timeout

RECURSIVE findHandlerFrom(_, _)
findHandlerFrom(i, req) ==
  IF i > Len(handlers) THEN 0
  ELSE IF Match(handlers[i], req) THEN i
  ELSE findHandlerFrom(i + 1, req)

\* mutant: the scan keeps going and returns the last handler that matches
findHandlerLastMatch(req) ==
  LET m == {i \in 1..Len(handlers) : Match(handlers[i], req)}
  IN IF m = {} THEN 0 ELSE CHOOSE i \in m : \A j \in m : j <= i

\* mutant: a request no handler matches falls through to the first handler
findHandlerFallback(req) ==
  IF findHandlerFrom(1, req) = 0 /\ Len(handlers) > 0 THEN 1
  ELSE findHandlerFrom(1, req)

findHandler(req) == findHandlerFrom(1, req)

\* the Match calls findHandler makes: handlers 1..k, k the one it returns
MatchCalls(req) ==
  LET k == findHandler(req)
      n == IF k = 0 THEN Len(handlers) ELSE k
  IN [i \in 1..n |-> <<"Match", i>>]

allowedMethods == "GET,PUT,POST,DELETE"
allowedHeaders == "Content-Type,Token"

\* mutant: the preflight answer is given only when no handler matches the request
IsPreflightAfterMatch(req) ==
  allowCORS /\ req.method = "OPTIONS" /\ findHandler(req) = 0

\* ServeHTTP's test for the preflight branch
IsPreflight(req) == allowCORS /\ req.method = "OPTIONS"

\* the calls ServeHTTP and Response make on the http.ResponseWriter
HeaderSet(key, value) == [op |-> "Header.Set", key |-> key, val |-> <<value>>, code |-> 0]

WriteHeader(code) == [op |-> "WriteHeader", key |-> "", val |-> <<>>, code |-> code]

Write(data) == [op |-> "Write", key |-> "", val |-> data, code |-> 0]

CORSWrites(req) ==
  IF allowCORS THEN << HeaderSet("Access-Control-Allow-Origin", req.origin) >> ELSE <<>>

\* mutant: the origin is allowed whether or not CORS is enabled
CORSHeadersAlways(req) == {<<"Access-Control-Allow-Origin", req.origin>>}

CORSHeaders(req) ==
  IF allowCORS THEN {<<"Access-Control-Allow-Origin", req.origin>>} ELSE {}

\* mutant: the write deadline is the context's deadline, without the extension
WriteDeadlineNoGrace(dl) == dl

\* mutant: the extension is counted from the current time, not from the deadline
WriteDeadlineFromNow(dl) == now + writeDeadlineExtension

\* the write deadline ServeHTTP sets from the context's deadline
WriteDeadlineFor(dl) == dl + writeDeadlineExtension

\* mutant: no write deadline is in force on the connection
FlushedAlways(hh, wd, t) == "response"

\* the connection's write path at time t: writes fail once the write deadline set
\* for this request has passed; without a selected handler none was set
Flushed(hh, wd, t) == IF hh = 0 \/ t < wd THEN "response" ELSE "EOF"

\* Go's integer division, which truncates toward zero (divisor positive)
GoDiv(a, b) == IF a >= 0 THEN a \div b ELSE -((-a) \div b)

\* mutant: every code from the 4xx family upwards counts as the user's fault
IsUserFaultFrom4xx(httpStatusCode) == GoDiv(httpStatusCode, 100) >= 4

IsUserFault(httpStatusCode) == GoDiv(httpStatusCode, 100) = 4

\* writer.WriteHeader accepts a three-digit status code and panics on any other
checkWriteHeaderCode(code) == code >= 100 /\ code <= 999

Requests == [method : Methods, path : Paths, origin : Origins, buffered : BOOLEAN]

NoEvent == [TypeOptional |-> "", Lines |-> <<"no event">>]

\* no event stream is open
NoStream ==
  /\ ctxDone = FALSE
  /\ clientGone = FALSE
  /\ deadlinePassed = FALSE
  /\ writeExpired = FALSE
  /\ producer = "none"
  /\ item = 0
  /\ sending = NoEvent
  /\ sent = <<>>
  /\ transport = "none"
  /\ me = NoEvent
  /\ out = <<>>
  /\ streamHeader = {}
  /\ flushErr = FALSE

\* no library call is looked at
NoConcurrency ==
  /\ serving = <<>>
  /\ sinks = <<>>

NoCall ==
  /\ fn = ""
  /\ args = <<>>
  /\ called = FALSE
  /\ ret = <<>>

Init ==
  /\ NoStream
  /\ NoCall
  /\ NoConcurrency
  /\ handlers \in HandlerLists
  /\ allowCORS \in BOOLEAN
  /\ timeout = DefaultTimeout
  /\ now = 0
  /\ pc = "idle"
  /\ request = NoRequest
  /\ h = 0
  /\ setting = 0
  /\ deadline = 0
  /\ readDeadline = 0
  /\ writeDeadline = 0
  /\ err = NoErr
  /\ e = NoError
  /\ handleEnd = Never
  /\ status = 0
  /\ body = <<>>
  /\ headers = {}
  /\ calls = <<>>
  /\ written = <<>>
  /\ cancelled = FALSE
  /\ logged = ""
  /\ client = "waiting"

\* mutant: the timer of the request in flight is set again from the new default
SetTimeoutRearms(duration) ==
  /\ timeout' = duration
  /\ IF pc \notin {"idle", "done"} /\ h # 0
       THEN /\ setting' = duration
            /\ deadline' = deadline - setting + duration
       ELSE UNCHANGED <<setting, deadline>>
  /\ UNCHANGED outsideDispatcher
  /\ UNCHANGED <<cancelled, written, logged, handlers, allowCORS, now, pc, request, h,
                 readDeadline, writeDeadline, err, e, handleEnd, status, body,
                 headers, calls, client>>

SetTimeout(duration) ==
  /\ timeout' = duration
  /\ UNCHANGED outsideDispatcher
  /\ UNCHANGED <<cancelled, written, logged, handlers, allowCORS, now, pc, request, h, setting, deadline,
                 readDeadline, writeDeadline, err, e, handleEnd, status, body,
                 headers, calls, client>>

\* ServeHTTP, CORS preflight branch
ServePreflight(req) ==
  /\ pc \in {"idle", "done"}
  /\ IsPreflight(req)
  /\ request' = req
  /\ headers' = CORSHeaders(req) \cup
                  { <<"Access-Control-Allow-Methods", allowedMethods>>,
                    <<"Access-Control-Allow-Headers", allowedHeaders>>,
                    <<"Access-Control-Max-Age", "3600">> }
  /\ status' = StatusAccepted
  /\ body' = <<>>
  /\ h' = 0
  /\ calls' = <<>>
  /\ setting' = 0 /\ deadline' = 0 /\ readDeadline' = 0 /\ writeDeadline' = 0
  /\ err' = NoErr
  /\ e' = NoError
  /\ handleEnd' = Never
  /\ pc' = "done"
  /\ client' = Flushed(0, 0, now)
  /\ logged' = "WARN"
  /\ written' = CORSWrites(req) \o
                  << HeaderSet("Access-Control-Allow-Methods", allowedMethods),
                     HeaderSet("Access-Control-Allow-Headers", allowedHeaders),
                     HeaderSet("Access-Control-Max-Age", "3600"),
                     WriteHeader(StatusAccepted) >>
  /\ cancelled' = FALSE
  /\ UNCHANGED outsideDispatcher
  /\ UNCHANGED <<handlers, allowCORS, timeout, now>>

\* ServeHTTP, findHandler returned nil
ServeUnmatched(req) ==
  /\ pc \in {"idle", "done"}
  /\ ~IsPreflight(req)
  /\ findHandler(req) = 0
  /\ request' = req
  /\ headers' = CORSHeaders(req)
  /\ calls' = MatchCalls(req)
  /\ h' = 0
  /\ status' = StatusNotAcceptable
  /\ body' = <<"unsupported request on", req.method, req.path>>
  /\ setting' = 0 /\ deadline' = 0 /\ readDeadline' = 0 /\ writeDeadline' = 0
  /\ err' = NoErr
  /\ e' = NoError
  /\ handleEnd' = Never
  /\ pc' = "done"
  /\ client' = Flushed(0, 0, now)
  /\ logged' = "WARN"
  /\ written' = CORSWrites(req) \o << WriteHeader(StatusNotAcceptable), Write(body') >>
  /\ cancelled' = FALSE
  /\ UNCHANGED outsideDispatcher
  /\ UNCHANGED <<handlers, allowCORS, timeout, now>>

\* mutant: the timeout resolved for the request is stored in the selected
\* handler as its override
ServeSelectStoresSetting(req) ==
  /\ pc \in {"idle", "done"}
  /\ ~IsPreflight(req)
  /\ findHandler(req) # 0
  /\ request' = req
  /\ headers' = CORSHeaders(req)
  /\ calls' = MatchCalls(req)
  /\ h' = findHandler(req)
  /\ setting' = withTimeout(handlers[findHandler(req)])
  /\ deadline' = now + setting'
  /\ readDeadline' = deadline'
  /\ writeDeadline' = WriteDeadlineFor(deadline')
  /\ status' = 0
  /\ body' = <<>>
  /\ err' = NoErr
  /\ e' = NoError
  /\ handleEnd' = Never
  /\ pc' = "reading"
  /\ client' = "waiting"
  /\ logged' = ""
  /\ written' = CORSWrites(req)
  /\ cancelled' = FALSE
  /\ UNCHANGED outsideDispatcher
  /\ handlers' = [handlers EXCEPT ![h'].Timeout = setting']
  /\ UNCHANGED <<allowCORS, timeout, now>>

\* ServeHTTP, a handler is selected: context with timeout, connection deadlines,
\* then io.ReadAll starts
ServeSelect(req) ==
  /\ pc \in {"idle", "done"}
  /\ ~IsPreflight(req)
  /\ findHandler(req) # 0
  /\ request' = req
  /\ headers' = CORSHeaders(req)
  /\ calls' = MatchCalls(req)
  /\ h' = findHandler(req)
  /\ setting' = withTimeout(handlers[findHandler(req)])
  /\ deadline' = now + setting'
  /\ readDeadline' = deadline'
  /\ writeDeadline' = WriteDeadlineFor(deadline')
  /\ status' = 0
  /\ body' = <<>>
  /\ err' = NoErr
  /\ e' = NoError
  /\ handleEnd' = Never
  /\ pc' = "reading"
  /\ client' = "waiting"
  /\ logged' = ""
  /\ written' = CORSWrites(req)
  /\ cancelled' = FALSE
  /\ UNCHANGED outsideDispatcher
  /\ UNCHANGED <<handlers, allowCORS, timeout, now>>

\* time passes only while ServeHTTP is blocked: in a network read (which the
\* read deadline ends), or inside the handler's Parse, Handle or Response
Blocked ==
  \/ pc = "reading" /\ ~request.buffered /\ now < readDeadline
  \/ pc \in {"parsing", "handling", "responding"}

Tick ==
  /\ Blocked
  /\ now + TimeStep <= MaxTime
  /\ now' = now + TimeStep
  /\ UNCHANGED outsideDispatcher
  /\ UNCHANGED <<cancelled, written, logged, handlers, allowCORS, timeout, pc, request, h, setting, deadline,
                 readDeadline, writeDeadline, err, e, handleEnd, status, body,
                 headers, calls, client>>

\* io.ReadAll returned the body: Parse is called
ReadAllOK ==
  /\ pc = "reading"
  /\ request.buffered \/ now < readDeadline
  /\ calls' = Append(calls, <<"Parse", h>>)
  /\ pc' = "parsing"
  /\ UNCHANGED outsideDispatcher
  /\ UNCHANGED <<cancelled, written, logged, handlers, allowCORS, timeout, now, request, h, setting, deadline,
                 readDeadline, writeDeadline, err, e, handleEnd, status, body,
                 headers, client>>

\* mutant: the error of io.ReadAll is dropped and Parse is called all the same
ReadAllFailIgnored(timedOut) ==
  /\ pc = "reading"
  /\ ~request.buffered
  /\ timedOut <=> now >= readDeadline
  /\ err' = IF timedOut THEN ErrDeadlineExceeded ELSE ErrConnection
  /\ calls' = Append(calls, <<"Parse", h>>)
  /\ pc' = "parsing"
  /\ UNCHANGED outsideDispatcher
  /\ UNCHANGED <<cancelled, written, logged, handlers, allowCORS, timeout, now, request, h, setting, deadline,
                 readDeadline, writeDeadline, e, handleEnd, status, body, headers,
                 client>>

\* io.ReadAll returned an error: the read deadline passed before the body was
\* complete (timedOut), or the connection failed otherwise
ReadAllFail(timedOut) ==
  /\ pc = "reading"
  /\ ~request.buffered
  /\ timedOut <=> now >= readDeadline
  /\ err' = IF timedOut THEN ErrDeadlineExceeded ELSE ErrConnection
  /\ status' = StatusInternalServerError
  /\ pc' = "done"
  /\ client' = Flushed(h, writeDeadline, now)
  /\ logged' = "ERROR"
  /\ written' = Append(written, WriteHeader(StatusInternalServerError))
  /\ cancelled' = TRUE
  /\ UNCHANGED outsideDispatcher
  /\ UNCHANGED <<handlers, allowCORS, timeout, now, request, h, setting, deadline,
                 readDeadline, writeDeadline, e, handleEnd, body, headers, calls>>

\* Parse returned a value: Handle is called
ParseOK ==
  /\ pc = "parsing"
  /\ calls' = Append(calls, <<"Handle", h>>)
  /\ pc' = "handling"
  /\ UNCHANGED outsideDispatcher
  /\ UNCHANGED <<cancelled, written, logged, handlers, allowCORS, timeout, now, request, h, setting, deadline,
                 readDeadline, writeDeadline, err, e, handleEnd, status, body,
                 headers, client>>

\* mutant: the status is written without the diagnostic body
ParseFailNoDiagnostic(parseErr) ==
  /\ pc = "parsing"
  /\ err' = parseErr
  /\ status' = StatusBadRequest
  /\ pc' = "done"
  /\ client' = Flushed(h, writeDeadline, now)
  /\ logged' = "WARN"
  /\ written' = Append(written, WriteHeader(StatusBadRequest))
  /\ cancelled' = TRUE
  /\ UNCHANGED outsideDispatcher
  /\ UNCHANGED <<handlers, allowCORS, timeout, now, request, h, setting, deadline,
                 readDeadline, writeDeadline, e, handleEnd, body, headers, calls>>

\* mutant: ServeHTTP returns on a Parse error without cancelling the context
ParseFailKeepsContext(parseErr) ==
  /\ pc = "parsing"
  /\ err' = parseErr
  /\ status' = StatusBadRequest
  /\ body' = <<"can not parse req", request.method, request.path, "as", parseErr>>
  /\ pc' = "done"
  /\ client' = Flushed(h, writeDeadline, now)
  /\ logged' = "WARN"
  /\ written' = written \o << WriteHeader(StatusBadRequest), Write(body') >>
  /\ UNCHANGED cancelled
  /\ UNCHANGED outsideDispatcher
  /\ UNCHANGED <<handlers, allowCORS, timeout, now, request, h, setting, deadline,
                 readDeadline, writeDeadline, e, handleEnd, headers, calls>>

\* Parse returned an error
ParseFail(parseErr) ==
  /\ pc = "parsing"
  /\ err' = parseErr
  /\ status' = StatusBadRequest
  /\ body' = <<"can not parse req", request.method, request.path, "as", parseErr>>
  /\ pc' = "done"
  /\ client' = Flushed(h, writeDeadline, now)
  /\ logged' = "WARN"
  /\ written' = written \o << WriteHeader(StatusBadRequest), Write(body') >>
  /\ cancelled' = TRUE
  /\ UNCHANGED outsideDispatcher
  /\ UNCHANGED <<handlers, allowCORS, timeout, now, request, h, setting, deadline,
                 readDeadline, writeDeadline, e, handleEnd, headers, calls>>

\* Handle returned a Coded Error: it is logged, then its code goes to WriteHeader
\* and the text of its cause to Write; WriteHeader panics on a code that is not
\* a three-digit status, the server recovers and closes the connection
HandleCodedError(code, cause) ==
  /\ pc = "handling"
  /\ e' = [Code |-> code, Err |-> cause]
  /\ handleEnd' = now
  /\ IF checkWriteHeaderCode(code)
       THEN /\ status' = code
            /\ body' = <<cause>>
            /\ written' = written \o << WriteHeader(code), Write(body') >>
            /\ client' = Flushed(h, writeDeadline, now)
       ELSE /\ UNCHANGED <<status, body, written>>
            /\ client' = "EOF"
  /\ pc' = "done"
  /\ logged' = IF IsUserFault(code) THEN "WARN" ELSE "ERROR"
  /\ cancelled' = TRUE
  /\ UNCHANGED outsideDispatcher
  /\ UNCHANGED <<handlers, allowCORS, timeout, now, request, h, setting, deadline,
                 readDeadline, writeDeadline, err, headers, calls>>

\* mutant: an output that arrives after the context's deadline is replaced by a
\* 500 of the Dispatcher's own
HandleOutputUnlessExpired ==
  /\ pc = "handling"
  /\ handleEnd' = now
  /\ IF now >= deadline
       THEN /\ status' = StatusInternalServerError
            /\ pc' = "done"
            /\ client' = Flushed(h, writeDeadline, now)
            /\ written' = Append(written, WriteHeader(StatusInternalServerError))
            /\ cancelled' = TRUE
            /\ UNCHANGED calls
       ELSE /\ calls' = Append(calls, <<"Response", h>>)
            /\ pc' = "responding"
            /\ UNCHANGED <<status, client, written, cancelled>>
  /\ UNCHANGED outsideDispatcher
  /\ UNCHANGED <<logged, handlers, allowCORS, timeout, now, request, h, setting,
                 deadline, readDeadline, writeDeadline, err, e, body, headers>>

\* Handle returned an output and no error: Response is called
HandleOutput ==
  /\ pc = "handling"
  /\ handleEnd' = now
  /\ calls' = Append(calls, <<"Response", h>>)
  /\ pc' = "responding"
  /\ UNCHANGED outsideDispatcher
  /\ UNCHANGED <<cancelled, written, logged, handlers, allowCORS, timeout, now, request, h, setting, deadline,
                 readDeadline, writeDeadline, err, e, status, body, headers, client>>

\* mutant: the formatted bytes are written first and the Content-Type is set
\* afterwards, when the header has already gone out
ResponseOKWriteFirst ==
  /\ pc = "responding"
  /\ status' = StatusOK
  /\ body' = <<"output">>
  /\ pc' = "done"
  /\ client' = Flushed(h, writeDeadline, now)
  /\ written' = written \o << Write(body'),
                              HeaderSet("Content-Type", ResponseContentType(handlers[h])) >>
  /\ cancelled' = TRUE
  /\ UNCHANGED outsideDispatcher
  /\ UNCHANGED <<logged, handlers, allowCORS, timeout, now, request, h, setting, deadline,
                 readDeadline, writeDeadline, err, e, handleEnd, calls, headers>>

\* ClosureHandler.Response, Format succeeded
ResponseOK ==
  /\ pc = "responding"
  /\ headers' = headers \cup {<<"Content-Type", ResponseContentType(handlers[h])>>}
  /\ status' = StatusOK
  /\ body' = <<"output">>
  /\ pc' = "done"
  /\ client' = Flushed(h, writeDeadline, now)
  /\ written' = written \o << HeaderSet("Content-Type", ResponseContentType(handlers[h])),
                              Write(body') >>
  /\ cancelled' = TRUE
  /\ UNCHANGED outsideDispatcher
  /\ UNCHANGED <<logged, handlers, allowCORS, timeout, now, request, h, setting, deadline,
                 readDeadline, writeDeadline, err, e, handleEnd, calls>>

\* ClosureHandler.Response, Format returned an error
ResponseFormatFail ==
  /\ pc = "responding"
  /\ status' = StatusInternalServerError
  /\ pc' = "done"
  /\ client' = Flushed(h, writeDeadline, now)
  /\ logged' = "ERROR"
  /\ written' = Append(written, WriteHeader(StatusInternalServerError))
  /\ cancelled' = TRUE
  /\ UNCHANGED outsideDispatcher
  /\ UNCHANGED <<handlers, allowCORS, timeout, now, request, h, setting, deadline,
                 readDeadline, writeDeadline, err, e, handleEnd, body, headers, calls>>

Next ==
  \/ \E d \in SetTimeoutArgs : SetTimeout(d)
  \/ \E req \in Requests : ServePreflight(req)
  \/ \E req \in Requests : ServeUnmatched(req)
  \/ \E req \in Requests : ServeSelect(req)
  \/ Tick
  \/ ReadAllOK
  \/ \E timedOut \in BOOLEAN : ReadAllFail(timedOut)
  \/ ParseOK
  \/ \E parseErr \in ParseErrs : ParseFail(parseErr)
  \/ \E code \in Codes, cause \in ErrTexts : HandleCodedError(code, cause)
  \/ HandleOutput
  \/ ResponseOK
  \/ ResponseFormatFail

Spec == Init /\ [][Next]_vars

\* ------------------------------------------------------- event streams
\* ServerSentEventsHandler.Response (src/wf.go) drains the channel Handle
\* returned; the producer is the goroutine pass of the SSE example, with the
\* content of its events left open.
MessageEvent(type, lines) == [TypeOptional |-> type, Lines |-> lines]

Events ==
  { MessageEvent("", <<"a">>),
    MessageEvent("note", <<"b", "c">>),
    MessageEvent("", <<>>) }

NewServerSentEventsHandler(matcher) == [matcher |-> matcher, Timeout |-> 0]

\* a flush of the connection, as an entry of out
FlushCall == <<"Flush">>

\* mutant: the event line is written for the empty type label as well
FrameEventAlways(ev) ==
  << <<"event: ", ev.TypeOptional>> >>
  \o [i \in 1..Len(ev.Lines) |-> <<"data: ", ev.Lines[i]>>]
  \o << <<"">> >>

\* the lines Response writes for one event
Frame(ev) ==
  (IF ev.TypeOptional # "" THEN << <<"event: ", ev.TypeOptional>> >> ELSE <<>>)
  \o [i \in 1..Len(ev.Lines) |-> <<"data: ", ev.Lines[i]>>]
  \o << <<"">> >>

\* every dispatcher variable but pc
dispatcherRest ==
  <<handlers, allowCORS, timeout, now, request, h, setting, deadline,
    readDeadline, writeDeadline, err, e, handleEnd, status, body, headers,
    calls, written, logged, client>>

\* ServeHTTP has called Response on a ServerSentEventsHandler whose Handle
\* started the producer and returned its channel; the context's deadline, and
\* then the write deadline, may have passed while Handle ran
SSEInit ==
  /\ handlers = << NewServerSentEventsHandler(Exact("GET", "/a")) >>
  /\ allowCORS = FALSE
  /\ timeout = DefaultTimeout
  /\ now = 0
  /\ pc = "responding"
  /\ request = [method |-> "GET", path |-> "/a", origin |-> "http://o",
                buffered |-> TRUE]
  /\ h = 1
  /\ setting = DefaultTimeout
  /\ deadline = DefaultTimeout
  /\ readDeadline = DefaultTimeout
  /\ writeDeadline = WriteDeadlineFor(DefaultTimeout)
  /\ err = NoErr
  /\ e = NoError
  /\ handleEnd = 0
  /\ status = 0
  /\ body = <<>>
  /\ headers = {}
  /\ calls = << <<"Match", 1>>, <<"Parse", 1>>, <<"Handle", 1>>, <<"Response", 1>> >>
  /\ written = <<>>
  /\ cancelled = FALSE
  /\ logged = ""
  /\ client = "waiting"
  /\ clientGone \in BOOLEAN
  /\ deadlinePassed \in BOOLEAN
  /\ ctxDone = (clientGone \/ deadlinePassed)
  /\ writeExpired \in BOOLEAN
  /\ writeExpired => deadlinePassed
  /\ producer = "select"
  /\ item = 0
  /\ sending = NoEvent
  /\ sent = <<>>
  /\ transport = "start"
  /\ me = NoEvent
  /\ out = <<>>
  /\ streamHeader = {}
  /\ flushErr = FALSE
  /\ NoCall
  /\ NoConcurrency

\* Response sets the stream headers and reaches its loop over ch
ResponseStart ==
  /\ transport = "start"
  /\ streamHeader' = { <<"Content-Type", "text/event-stream">>,
                       <<"Cache-Control", "no-cache">>,
                       <<"Connection", "keep-alive">> }
  /\ transport' = "range"
  /\ UNCHANGED <<ctxDone, clientGone, deadlinePassed, writeExpired, producer, item, sending, sent, me, out,
                 flushErr>>
  /\ UNCHANGED dispatcherVars
  /\ UNCHANGED outsideStream

\* ch is unbuffered: the producer's send and the loop's receive happen together;
\* the producer goes on to its next iteration
RangeReceive ==
  /\ transport = "range"
  /\ producer = "send"
  /\ me' = sending
  /\ sent' = Append(sent, sending)
  /\ sending' = NoEvent
  /\ producer' = "select"
  /\ item' = item + 1
  /\ transport' = "write"
  /\ UNCHANGED <<ctxDone, clientGone, deadlinePassed, writeExpired, out, streamHeader, flushErr>>
  /\ UNCHANGED dispatcherVars
  /\ UNCHANGED outsideStream

\* mutant: the loop also ends when the context is done
RangeClosedOrCtxDone ==
  /\ transport = "range"
  /\ producer = "returned" \/ ctxDone
  /\ transport' = "returned"
  /\ ctxDone' = TRUE
  /\ pc' = "done"
  /\ cancelled' = TRUE
  /\ UNCHANGED <<clientGone, deadlinePassed, writeExpired, producer, item, sending, sent, me, out,
                 streamHeader, flushErr>>
  /\ UNCHANGED dispatcherRest
  /\ UNCHANGED outsideStream

\* ch is closed: the loop ends, Response returns, ServeHTTP returns and its
\* deferred cancel runs
RangeClosed ==
  /\ transport = "range"
  /\ producer = "returned"
  /\ transport' = "returned"
  /\ ctxDone' = TRUE
  /\ pc' = "done"
  /\ cancelled' = TRUE
  /\ UNCHANGED <<clientGone, deadlinePassed, writeExpired, producer, item, sending, sent, me, out,
                 streamHeader, flushErr>>
  /\ UNCHANGED dispatcherRest
  /\ UNCHANGED outsideStream

\* mutant: the frame is written twice
WriteEventTwice ==
  /\ transport = "write"
  /\ out' = out \o Frame(me) \o Frame(me)
  /\ transport' = "flush"
  /\ UNCHANGED <<ctxDone, clientGone, deadlinePassed, writeExpired, producer, item, sending, sent, me,
                 streamHeader, flushErr>>
  /\ UNCHANGED dispatcherVars
  /\ UNCHANGED outsideStream

\* the loop body up to the flush: the event line, the data lines, the blank line
\* (errors of these writes are dropped)
WriteEvent ==
  /\ transport = "write"
  /\ out' = out \o Frame(me)
  /\ transport' = "flush"
  /\ UNCHANGED <<ctxDone, clientGone, deadlinePassed, writeExpired, producer, item, sending, sent, me,
                 streamHeader, flushErr>>
  /\ UNCHANGED dispatcherVars
  /\ UNCHANGED outsideStream

\* mutant: the loop goes on without flushing
FlushSkipped ==
  /\ transport = "flush"
  /\ ~writeExpired
  /\ transport' = "range"
  /\ UNCHANGED <<ctxDone, clientGone, deadlinePassed, writeExpired, producer, item, sending, sent, me, out,
                 streamHeader, flushErr>>
  /\ UNCHANGED dispatcherVars
  /\ UNCHANGED outsideStream

\* mutant: a flush goes through after the write deadline as well
FlushOKPastDeadline ==
  /\ transport = "flush"
  /\ out' = Append(out, FlushCall)
  /\ transport' = "range"
  /\ UNCHANGED <<ctxDone, clientGone, deadlinePassed, writeExpired, producer, item, sending, sent, me,
                 streamHeader, flushErr>>
  /\ UNCHANGED dispatcherVars
  /\ UNCHANGED outsideStream

\* rc.Flush succeeded: back to the receive
FlushOK ==
  /\ transport = "flush"
  /\ ~writeExpired
  /\ out' = Append(out, FlushCall)
  /\ transport' = "range"
  /\ UNCHANGED <<ctxDone, clientGone, deadlinePassed, writeExpired, producer, item, sending, sent, me,
                 streamHeader, flushErr>>
  /\ UNCHANGED dispatcherVars
  /\ UNCHANGED outsideStream

\* mutant: after a failed flush the loop goes on with the next event
FlushFailContinues ==
  /\ transport = "flush"
  /\ out' = Append(out, FlushCall)
  /\ flushErr' = TRUE
  /\ transport' = "range"
  /\ logged' = "ERROR"
  /\ UNCHANGED <<ctxDone, clientGone, deadlinePassed, writeExpired, producer, item, sending, sent, me,
                 streamHeader>>
  /\ UNCHANGED <<pc, handlers, allowCORS, timeout, now, request, h, setting,
                 deadline, readDeadline, writeDeadline, err, e, handleEnd, status,
                 body, headers, calls, written, cancelled, client>>
  /\ UNCHANGED outsideStream

\* rc.Flush failed (the client is gone, or the write deadline has passed): the
\* error is logged, Response returns, ServeHTTP returns and its deferred cancel
\* runs
FlushFail ==
  /\ transport = "flush"
  /\ out' = Append(out, FlushCall)
  /\ flushErr' = TRUE
  /\ transport' = "returned"
  /\ logged' = "ERROR"
  /\ ctxDone' = TRUE
  /\ pc' = "done"
  /\ cancelled' = TRUE
  /\ UNCHANGED <<clientGone, deadlinePassed, writeExpired, producer, item, sending, sent, me, streamHeader>>
  /\ UNCHANGED <<handlers, allowCORS, timeout, now, request, h, setting,
                 deadline, readDeadline, writeDeadline, err, e, handleEnd, status,
                 body, headers, calls, written, client>>
  /\ UNCHANGED outsideStream

\* pass, case <-ticker.C: the producer builds an event and blocks in ch <- event
PassTick(ev) ==
  /\ producer = "select"
  /\ item < itemSize
  /\ producer' = "send"
  /\ sending' = ev
  /\ UNCHANGED <<ctxDone, clientGone, deadlinePassed, writeExpired, item, sent,
                 transport, me, out, streamHeader, flushErr>>
  /\ UNCHANGED dispatcherVars
  /\ UNCHANGED outsideStream

\* pass, case <-ctx.Done(): return, and the deferred close(ch)
PassCtxDone ==
  /\ producer = "select"
  /\ item < itemSize
  /\ ctxDone
  /\ producer' = "returned"
  /\ UNCHANGED <<ctxDone, clientGone, deadlinePassed, writeExpired, item, sending,
                 sent, transport, me, out, streamHeader, flushErr>>
  /\ UNCHANGED dispatcherVars
  /\ UNCHANGED outsideStream

\* pass, the loop is over: return, and the deferred close(ch)
PassReturn ==
  /\ producer = "select"
  /\ item = itemSize
  /\ producer' = "returned"
  /\ UNCHANGED <<ctxDone, clientGone, deadlinePassed, writeExpired, item, sending,
                 sent, transport, me, out, streamHeader, flushErr>>
  /\ UNCHANGED dispatcherVars
  /\ UNCHANGED outsideStream

\* mutant: the context passed to Handle does not descend from the request's context
CtxCancelDetached ==
  /\ transport # "none"
  /\ ~clientGone
  /\ clientGone' = TRUE
  /\ UNCHANGED <<ctxDone, deadlinePassed, writeExpired, producer, item, sending,
                 sent, transport, me, out, streamHeader, flushErr>>
  /\ UNCHANGED dispatcherVars
  /\ UNCHANGED outsideStream

\* the client goes away: the server cancels request.Context(), and with it the
\* context withTimeout derived from it
CtxCancel ==
  /\ transport # "none"
  /\ ~clientGone
  /\ clientGone' = TRUE
  /\ ctxDone' = TRUE
  /\ UNCHANGED <<deadlinePassed, writeExpired, producer, item, sending, sent,
                 transport, me, out, streamHeader, flushErr>>
  /\ UNCHANGED dispatcherVars
  /\ UNCHANGED outsideStream

\* the deadline withTimeout gave the context passes
CtxDeadlineExceeded ==
  /\ transport # "none"
  /\ ~deadlinePassed
  /\ deadlinePassed' = TRUE
  /\ ctxDone' = TRUE
  /\ UNCHANGED <<clientGone, writeExpired, producer, item, sending, sent,
                 transport, me, out, streamHeader, flushErr>>
  /\ UNCHANGED dispatcherVars
  /\ UNCHANGED outsideStream

\* the write deadline, set later than the context's deadline, passes
WriteDeadlinePasses ==
  /\ transport # "none"
  /\ deadlinePassed
  /\ ~writeExpired
  /\ writeExpired' = TRUE
  /\ UNCHANGED <<ctxDone, clientGone, deadlinePassed, producer, item, sending,
                 sent, transport, me, out, streamHeader, flushErr>>
  /\ UNCHANGED dispatcherVars
  /\ UNCHANGED outsideStream



\* the steps of Response
TransportNext ==
  \/ ResponseStart
  \/ RangeReceive
  \/ RangeClosed
  \/ WriteEvent
  \/ FlushOK
  \/ FlushFail

\* the steps of the producer
PassNext ==
  \/ \E ev \in Events : PassTick(ev)
  \/ PassCtxDone
  \/ PassReturn
  \/ RangeReceive

SSENext ==
  \/ ResponseStart
  \/ RangeReceive
  \/ RangeClosed
  \/ WriteEvent
  \/ FlushOK
  \/ FlushFail
  \/ \E ev \in Events : PassTick(ev)
  \/ PassCtxDone
  \/ PassReturn
  \/ CtxCancel
  \/ CtxDeadlineExceeded
  \/ WriteDeadlinePasses

SpecSSE == SSEInit /\ [][SSENext]_vars

\* the Go scheduler runs a goroutine that can take a step, and the ticker ticks
SpecSSEFair == SpecSSE /\ WF_vars(TransportNext) /\ WF_vars(PassNext)

\* ------------------------------------------- requests of either kind
\* a request served by closure handlers, or one whose Response streams events
ServeInit == Init \/ SSEInit

ClosureNext == transport = "none" /\ Next

ServeNext == ClosureNext \/ SSENext

SpecServe == ServeInit /\ [][ServeNext]_vars

\* ------------------------------------------------ matchers and parsers
\* Strings are sequences of one-character strings.
Chars == {"/", "u", "1", "2"}

Digits == {"0", "1", "2", "3", "4", "5", "6", "7", "8", "9"}

DigitValue(c) ==
  CASE c = "0" -> 0 [] c = "1" -> 1 [] c = "2" -> 2 [] c = "3" -> 3 [] c = "4" -> 4
    [] c = "5" -> 5 [] c = "6" -> 6 [] c = "7" -> 7 [] c = "8" -> 8 [] c = "9" -> 9

StringsUpTo(n) == UNION {[1..k -> Chars] : k \in 0..n}

\* strings.Trim(s, "/"): all leading and all trailing slashes are cut
RECURSIVE TrimLeft(_)
TrimLeft(s) == IF s # <<>> /\ Head(s) = "/" THEN TrimLeft(Tail(s)) ELSE s

RECURSIVE TrimRight(_)
TrimRight(s) ==
  IF s # <<>> /\ s[Len(s)] = "/" THEN TrimRight(SubSeq(s, 1, Len(s) - 1)) ELSE s

\* mutant: at most one slash is cut at each end
TrimOnce(s) ==
  LET l == IF s # <<>> /\ Head(s) = "/" THEN Tail(s) ELSE s
  IN IF l # <<>> /\ l[Len(l)] = "/" THEN SubSeq(l, 1, Len(l) - 1) ELSE l

Trim(s) == TrimRight(TrimLeft(s))

\* strings.Split(s, "/"): the pieces between the slashes, one more than there
\* are slashes; the empty string gives one empty piece
RECURSIVE SplitFrom(_, _, _)
SplitFrom(s, cur, acc) ==
  IF s = <<>> THEN Append(acc, cur)
  ELSE IF Head(s) = "/" THEN SplitFrom(Tail(s), <<>>, Append(acc, cur))
  ELSE SplitFrom(Tail(s), Append(cur, Head(s)), acc)

Split(s) == SplitFrom(s, <<>>, <<>>)

\* strconv.Atoi on the strings tried here (int does not overflow on them): an
\* optional sign, then one digit at least and digits only
RECURSIVE AtoiDigits(_, _)
AtoiDigits(s, acc) ==
  IF s = <<>> THEN [num |-> acc, err |-> FALSE]
  ELSE IF Head(s) \notin Digits THEN [num |-> 0, err |-> TRUE]
  ELSE AtoiDigits(Tail(s), 10 * acc + DigitValue(Head(s)))

Atoi(s) ==
  IF s = <<>> THEN [num |-> 0, err |-> TRUE]
  ELSE IF Head(s) \in {"+", "-"}
    THEN IF Tail(s) = <<>> THEN [num |-> 0, err |-> TRUE]
         ELSE LET r == AtoiDigits(Tail(s), 0)
              IN IF Head(s) = "-" /\ ~r.err THEN [num |-> -r.num, err |-> FALSE] ELSE r
  ELSE AtoiDigits(s, 0)

\* ResourceWithIDs, the loop of mh over parts from index i on
RECURSIVE mhFrom(_, _, _)
mhFrom(parts, subs, i) ==
  IF i > Len(parts) THEN TRUE
  ELSE IF parts[i] # <<>>
    THEN IF parts[i] # subs[i] THEN FALSE ELSE mhFrom(parts, subs, i + 1)
  ELSE IF Atoi(subs[i]).err THEN FALSE
  ELSE mhFrom(parts, subs, i + 1)

\* mutant: a placeholder accepts any segment
mhAnyID(method, parts, req) ==
  LET subs == Split(Trim(req.Path))
  IN /\ req.Method = method
     /\ Len(subs) = Len(parts)
     /\ \A i \in 1..Len(parts) : parts[i] # <<>> => parts[i] = subs[i]

\* ResourceWithIDs, the predicate it returns
mh(method, parts, req) ==
  IF req.Method # method THEN FALSE
  ELSE LET subs == Split(Trim(req.Path))
       IN IF Len(subs) # Len(parts) THEN FALSE
          ELSE mhFrom(parts, subs, 1)

\* ResourceWithIDs, the loop of pf; subs[i] beyond the end of subs panics, and
\* the error of Atoi is dropped with the number 0 kept
RECURSIVE pfFrom(_, _, _, _)
pfFrom(parts, subs, i, retIDs) ==
  IF i > Len(parts) THEN [ids |-> retIDs, err |-> FALSE, panic |-> FALSE]
  ELSE IF parts[i] # <<>> THEN pfFrom(parts, subs, i + 1, retIDs)
  ELSE IF i > Len(subs) THEN [ids |-> <<>>, err |-> FALSE, panic |-> TRUE]
  ELSE pfFrom(parts, subs, i + 1, Append(retIDs, Atoi(subs[i]).num))

\* ResourceWithIDs, the extraction function it returns
pf(parts, path) == pfFrom(parts, Split(Trim(path)), 1, <<>>)

ResourceWithIDs(method, parts, req) ==
  [match |-> mh(method, parts, req), parsed |-> pf(parts, req.Path)]

\* mutant: every criterion is evaluated before the answer is given
RECURSIVE MatchAllEager(_, _, _)
MatchAllEager(results, i, evaluated) ==
  IF i > Len(results)
    THEN [result |-> \A j \in 1..Len(results) : results[j], evaluated |-> evaluated]
  ELSE MatchAllEager(results, i + 1, Append(evaluated, i))

\* MatchAll's closure on criteria whose results for the request are given:
\* which criteria it evaluates, and what it returns
RECURSIVE MatchAllLoop(_, _, _)
MatchAllLoop(results, i, evaluated) ==
  IF i > Len(results) THEN [result |-> TRUE, evaluated |-> evaluated]
  ELSE IF ~results[i] THEN [result |-> FALSE, evaluated |-> Append(evaluated, i)]
  ELSE MatchAllLoop(results, i + 1, Append(evaluated, i))

\* ------------------------------------------------ the single-ID variant
CutPrefix(s, prefix) ==
  IF Len(s) >= Len(prefix) /\ SubSeq(s, 1, Len(prefix)) = prefix
    THEN [after |-> SubSeq(s, Len(prefix) + 1, Len(s)), found |-> TRUE]
  ELSE [after |-> s, found |-> FALSE]

CutSuffix(s, suffix) ==
  IF Len(s) >= Len(suffix) /\ SubSeq(s, Len(s) - Len(suffix) + 1, Len(s)) = suffix
    THEN [before |-> SubSeq(s, 1, Len(s) - Len(suffix)), found |-> TRUE]
  ELSE [before |-> s, found |-> FALSE]

\* the index, counted from 0, of the last c in s, and -1 if there is none
LastIndexByte(s, c) ==
  LET at == {i \in 1..Len(s) : s[i] = c}
  IN IF at = {} THEN -1 ELSE (CHOOSE i \in at : \A j \in at : j <= i) - 1

\* the predicate ResourceWithID returns
ResourceWithID(method, pathPrefixWithTailSlash, pathSuffixWithHeadSlashNullable, req) ==
  IF req.Method # method THEN FALSE
  ELSE LET p == CutPrefix(req.Path, pathPrefixWithTailSlash)
       IN IF ~p.found THEN FALSE
          ELSE IF pathSuffixWithHeadSlashNullable # <<>>
            THEN LET c == CutSuffix(p.after, pathSuffixWithHeadSlashNullable)
                 IN IF ~c.found THEN FALSE ELSE ~Atoi(c.before).err
          ELSE ~Atoi(p.after).err

\* mutant: the suffix is left on the path
PathIDParserKeepsSuffix(pathSuffixWithHeadSlashNullable, path) ==
  [num |-> Atoi(SubSeq(path, LastIndexByte(path, "/") + 2, Len(path))).num,
   err |-> FALSE]

\* the extraction function PathIDParser returns
PathIDParser(pathSuffixWithHeadSlashNullable, path) ==
  LET c == CutSuffix(path, pathSuffixWithHeadSlashNullable)
      rest == IF pathSuffixWithHeadSlashNullable # <<>> THEN c.before ELSE path
      str == SubSeq(rest, LastIndexByte(rest, "/") + 2, Len(rest))
  IN IF pathSuffixWithHeadSlashNullable # <<>> /\ ~c.found
       THEN [num |-> 0, err |-> TRUE]
     ELSE [num |-> Atoi(str).num, err |-> FALSE]

\* ---------------------------------------------------------- the token
ctxTokenKey == "token"

\* a context is the chain of the values attached to it, the innermost last
WithValue(ctx, key, val) == Append(ctx, [key |-> key, val |-> val])

\* ctx.Value(key): the innermost value under the key, nil if there is none
Value(ctx, key) ==
  LET at == {i \in 1..Len(ctx) : ctx[i].key = key}
  IN IF at = {} THEN [nil |-> TRUE, val |-> ""]
     ELSE [nil |-> FALSE, val |-> ctx[CHOOSE i \in at : \A j \in at : j <= i].val]

\* mutant: an empty token is not attached
AttachTokenIfPresent(ctx, token) ==
  IF token = "" THEN ctx ELSE WithValue(ctx, ctxTokenKey, token)

AttachToken(ctx, token) == WithValue(ctx, ctxTokenKey, token)

\* the type assertion on a nil value panics
DetachToken(ctx) ==
  LET v == Value(ctx, ctxTokenKey)
  IN IF v.nil THEN [panic |-> TRUE, token |-> ""]
     ELSE [panic |-> FALSE, token |-> v.val]

\* request.Header.Get(key): the value of the header, "" when it is absent
HeaderGet(header, key) ==
  IF \E kv \in header : kv[1] = key
    THEN (CHOOSE kv \in header : kv[1] = key)[2]
  ELSE ""

\* the context ServeHTTP passes to Handle: withTimeout adds the deadline to the
\* request's context and keeps its values, AttachToken adds the Token header
HandleContext(parent, header) == AttachToken(parent, HeaderGet(header, "Token"))

\* ------------------------------------------------------- library calls
Specifiers == { <<>>, <<"u">> }

PartLists == UNION {[1..n -> Specifiers] : n \in 0..MaxParts}

ResourceArgs ==
  [method : {"GET"}, parts : PartLists,
   req : [Method : {"GET", "POST"}, Path : StringsUpTo(MaxPathLen)]]

MatchAllArgs == [results : UNION {[1..n -> BOOLEAN] : n \in 0..MaxCriteria}]

Tokens == {"", "t1", "t2"}

Headers ==
  { {}, {<<"Origin", "http://o">>} } \cup
  { {<<"Token", t>>} : t \in Tokens } \cup
  { {<<"Origin", "http://o">>, <<"Token", "t1">>} }

ParentContexts ==
  { <<>>,
    << [key |-> "http-server", val |-> "srv"] >>,
    << [key |-> "token", val |-> "outer"] >> }

TokenArgs == [parent : ParentContexts, header : Headers]

Prefixes == { <<"/">>, <<"/", "u", "/">>, <<"/", "u">>, <<>> }

Suffixes == { <<>>, <<"/", "u">>, <<"/">> }

ResourceIDArgs ==
  [method : {"GET"}, prefix : Prefixes, suffix : Suffixes,
   req : [Method : {"GET", "POST"}, Path : StringsUpTo(MaxPathLen)]]

\* the dispatcher before any request, and one library call about to be made
LibInit ==
  /\ handlers = <<>>
  /\ allowCORS = FALSE
  /\ timeout = DefaultTimeout
  /\ now = 0
  /\ pc = "idle"
  /\ request = NoRequest
  /\ h = 0
  /\ setting = 0
  /\ deadline = 0
  /\ readDeadline = 0
  /\ writeDeadline = 0
  /\ err = NoErr
  /\ e = NoError
  /\ handleEnd = Never
  /\ status = 0
  /\ body = <<>>
  /\ headers = {}
  /\ calls = <<>>
  /\ written = <<>>
  /\ cancelled = FALSE
  /\ logged = ""
  /\ client = "waiting"
  /\ NoStream
  /\ NoConcurrency
  /\ called = FALSE
  /\ ret = <<>>
  /\ \/ fn = "ResourceWithIDs" /\ args \in ResourceArgs
     \/ fn = "MatchAll" /\ args \in MatchAllArgs
     \/ fn = "DetachToken" /\ args \in TokenArgs
     \/ fn = "ResourceWithID" /\ args \in ResourceIDArgs

\* the predicate and the extraction function of ResourceWithIDs on one request
CallResourceWithIDs ==
  /\ fn = "ResourceWithIDs"
  /\ ~called
  /\ called' = TRUE
  /\ ret' = ResourceWithIDs(args.method, args.parts, args.req)
  /\ UNCHANGED <<fn, args, dispatcherVars, sseVars, concVars>>

\* the predicate of MatchAll on one request
CallMatchAll ==
  /\ fn = "MatchAll"
  /\ ~called
  /\ called' = TRUE
  /\ ret' = MatchAllLoop(args.results, 1, <<>>)
  /\ UNCHANGED <<fn, args, dispatcherVars, sseVars, concVars>>

\* ServeHTTP builds the context of a request and Handle calls DetachToken on it
CallDetachToken ==
  /\ fn = "DetachToken"
  /\ ~called
  /\ called' = TRUE
  /\ ret' = DetachToken(HandleContext(args.parent, args.header))
  /\ UNCHANGED <<fn, args, dispatcherVars, sseVars, concVars>>

\* the predicate of ResourceWithID and the function of PathIDParser on one path
CallResourceWithID ==
  /\ fn = "ResourceWithID"
  /\ ~called
  /\ called' = TRUE
  /\ ret' = [match |-> ResourceWithID(args.method, args.prefix, args.suffix, args.req),
             parsed |-> PathIDParser(args.suffix, args.req.Path)]
  /\ UNCHANGED <<fn, args, dispatcherVars, sseVars, concVars>>

LibNext ==
  \/ CallResourceWithIDs
  \/ CallMatchAll
  \/ CallDetachToken
  \/ CallResourceWithID

SpecLib == LibInit /\ [][LibNext]_vars

\* ------------------------------------------------- concurrent requests
\* net/http runs ServeHTTP in one goroutine per connection; each invocation has
\* its own writer and request, and its own ctx and cancel (local variables)
Slots == 1..MaxRequests

\* what the Handle of the selected handler does: it returns an output at once,
\* or it waits for ctx.Done() and returns a Coded Error
Behaviours == {"output", "wait"}

ConcRequests == [method : {"GET"}, path : {"/a", "/b"}, origin : {""}, buffered : {TRUE}]

NotServing ==
  [pc |-> "idle", req |-> NoRequest, behaviour |-> "", start |-> 0, deadline |-> 0,
   done |-> FALSE, gone |-> FALSE, end |-> Never]

\* a Web with two handlers, one with an override, before it serves any request;
\* the default timeout is the initial one or was set before serving
ConcInit ==
  /\ handlers = << NewClosureHandler(Exact("GET", "/a"), 50),
                   NewClosureHandler(Exact("GET", "/b"), 0) >>
  /\ allowCORS = FALSE
  /\ timeout \in {DefaultTimeout, 100}
  /\ now = 0
  /\ pc = "idle"
  /\ request = NoRequest
  /\ h = 0
  /\ setting = 0
  /\ deadline = 0
  /\ readDeadline = 0
  /\ writeDeadline = 0
  /\ err = NoErr
  /\ e = NoError
  /\ handleEnd = Never
  /\ status = 0
  /\ body = <<>>
  /\ headers = {}
  /\ calls = <<>>
  /\ written = <<>>
  /\ cancelled = FALSE
  /\ logged = ""
  /\ client = "waiting"
  /\ NoStream
  /\ NoCall
  /\ serving = [r \in Slots |-> NotServing]
  /\ sinks = [r \in Slots |-> <<>>]

concRest ==
  <<handlers, allowCORS, timeout, pc, request, h, setting, deadline,
    readDeadline, writeDeadline, err, e, handleEnd, status, body, headers,
    calls, written, cancelled, logged, client, sseVars, libVars>>

\* a call made by the ServeHTTP invocation r on a writer
By(r, ops) == [i \in 1..Len(ops) |-> [by |-> r, call |-> ops[i]]]

\* ServeHTTP of request r up to the call of Handle: findHandler, withTimeout
\* (the body is there and Parse accepts it)
ConcServe(r, req, behaviour) ==
  /\ serving[r].pc = "idle"
  /\ findHandler(req) # 0
  /\ serving' = [serving EXCEPT ![r] =
       [pc |-> "handling", req |-> req, behaviour |-> behaviour, start |-> now,
        deadline |-> now + withTimeout(handlers[findHandler(req)]),
        done |-> FALSE, gone |-> FALSE, end |-> Never]]
  /\ UNCHANGED <<sinks, now, concRest>>

\* time passes while some Handle is running
ConcTick ==
  /\ \E r \in Slots : serving[r].pc = "handling"
  /\ now + TimeStep <= MaxTime
  /\ now' = now + TimeStep
  /\ UNCHANGED <<serving, sinks, concRest>>

\* mutant: one timer cancels the contexts of all requests in flight
ConcDeadlineExceededAll(r) ==
  /\ serving[r].pc = "handling"
  /\ ~serving[r].done
  /\ now >= serving[r].deadline
  /\ serving' = [s \in Slots |->
       IF serving[s].pc = "handling" THEN [serving[s] EXCEPT !.done = TRUE]
       ELSE serving[s]]
  /\ UNCHANGED <<sinks, now, concRest>>

\* the timer of request r's context fires
ConcDeadlineExceeded(r) ==
  /\ serving[r].pc = "handling"
  /\ ~serving[r].done
  /\ now >= serving[r].deadline
  /\ serving' = [serving EXCEPT ![r].done = TRUE]
  /\ UNCHANGED <<sinks, now, concRest>>

\* the client of request r goes away: request.Context() is cancelled
ConcClientGone(r) ==
  /\ serving[r].pc = "handling"
  /\ ~serving[r].gone
  /\ serving' = [serving EXCEPT ![r].gone = TRUE, ![r].done = TRUE]
  /\ UNCHANGED <<sinks, now, concRest>>

\* Handle of request r returns an output, Response writes it, ServeHTTP returns
\* and its deferred cancel runs
ConcHandleOutput(r) ==
  /\ serving[r].pc = "handling"
  /\ serving[r].behaviour = "output"
  /\ sinks' = [sinks EXCEPT ![r] = @ \o By(r,
       << HeaderSet("Content-Type",
                    ResponseContentType(handlers[findHandler(serving[r].req)])),
          Write(<<"output">>) >>)]
  /\ serving' = [serving EXCEPT ![r].pc = "done", ![r].done = TRUE, ![r].end = now]
  /\ UNCHANGED <<now, concRest>>

\* Handle of request r sees its ctx.Done() closed and returns a Coded Error,
\* ServeHTTP writes it and returns
ConcHandleCodedError(r) ==
  /\ serving[r].pc = "handling"
  /\ serving[r].behaviour = "wait"
  /\ serving[r].done
  /\ sinks' = [sinks EXCEPT ![r] = @ \o By(r,
       << WriteHeader(StatusInternalServerError), Write(<<"timeout">>) >>)]
  /\ serving' = [serving EXCEPT ![r].pc = "done", ![r].end = now]
  /\ UNCHANGED <<now, concRest>>

ConcNext ==
  \/ \E r \in Slots, req \in ConcRequests, behaviour \in Behaviours :
       ConcServe(r, req, behaviour)
  \/ ConcTick
  \/ \E r \in Slots : ConcDeadlineExceeded(r)
  \/ \E r \in Slots : ConcClientGone(r)
  \/ \E r \in Slots : ConcHandleOutput(r)
  \/ \E r \in Slots : ConcHandleCodedError(r)

SpecConc == ConcInit /\ [][ConcNext]_vars

\* ------------------------------------------- the two timeout formulations
\* the explicit non-zero check
OrElseV0(optional, fallback) ==
  IF TimeoutOptional(optional) # 0 THEN TimeoutOptional(optional) ELSE fallback

\* cmp.Or: the first of its arguments that is not the zero value, else zero
RECURSIVE cmpOr(_)
cmpOr(vals) ==
  IF vals = <<>> THEN 0
  ELSE IF Head(vals) # 0 THEN Head(vals)
  ELSE cmpOr(Tail(vals))

OrElseV1(optional, fallback) == cmpOr(<<TimeoutOptional(optional), fallback>>)

\* ------------------------------------------------------------------ claims
\* indices of the handlers whose Match returns true for the request being served
Matching == {i \in 1..Len(handlers) : Match(handlers[i], request)}

\* the capabilities of a handler that were invoked for the request being served
Invoked(name) == \E i \in 1..Len(calls) : calls[i][1] = name

Served == pc # "idle"

AnsweredAsPreflight == allowCORS /\ request.method = "OPTIONS"

\* C1: for every request not answered as a CORS preflight, the selected handler
\* is the matching handler with the lowest registration index (none when none
\* matches), also when several match; serving the same request again selects
\* the same handler.
C1_LowestMatchSelected ==
  (Served /\ ~AnsweredAsPreflight) =>
    IF Matching = {} THEN h = 0
    ELSE h \in Matching /\ \A j \in Matching : h <= j

C1_SameRequestSameHandler ==
  (pc = "done" /\ ~AnsweredAsPreflight /\ request' = request) => h' = h

\* C1: first match wins, in every state and across repeated requests.
C1_FirstMatchWins ==
  [](C1_LowestMatchSelected) /\ [][C1_SameRequestSameHandler]_vars

C1_Witness ==
  /\ Served /\ ~AnsweredAsPreflight
  /\ Cardinality(Matching) >= 2
  /\ h = 1

\* C2 as stated: every request (any method, CORS enabled or not) that no
\* handler matches is answered 406 and no Parse, Handle or Response is invoked.
C2_Original ==
  (pc = "done" /\ Matching = {}) =>
    /\ status = StatusNotAcceptable
    /\ ~Invoked("Parse") /\ ~Invoked("Handle") /\ ~Invoked("Response")

\* C2 amended: every request that is not answered as a CORS preflight and that
\* no handler matches is answered 406, and no Parse, Handle or Response is
\* invoked for it.
C2_UnmatchedIs406 ==
  (Served /\ ~AnsweredAsPreflight /\ Matching = {}) =>
    /\ pc = "done"
    /\ status = StatusNotAcceptable
    /\ ~Invoked("Parse") /\ ~Invoked("Handle") /\ ~Invoked("Response")

C2_Witness ==
  /\ pc = "done" /\ Matching = {} /\ Len(handlers) > 0
  /\ request.method = "OPTIONS" /\ ~allowCORS
  /\ status = StatusNotAcceptable
  /\ Len(calls) = Len(handlers)

\* C3: with CORS enabled, an OPTIONS request is answered 202 with the fixed
\* Allow-Methods, Allow-Headers and Max-Age headers, and no Match, Parse,
\* Handle or Response of any handler is invoked, whatever the handler list.
C3_PreflightShortCircuit ==
  (Served /\ allowCORS /\ request.method = "OPTIONS") =>
    /\ pc = "done"
    /\ status = StatusAccepted
    /\ { <<"Access-Control-Allow-Methods", "GET,PUT,POST,DELETE">>,
         <<"Access-Control-Allow-Headers", "Content-Type,Token">>,
         <<"Access-Control-Max-Age", "3600">> } \subseteq headers
    /\ calls = <<>>

C3_Witness ==
  /\ Served /\ allowCORS /\ request.method = "OPTIONS"
  /\ Matching # {}
  /\ status = StatusAccepted /\ calls = <<>>

\* a step of ServeHTTP that selects a handler
Selecting == pc \in {"idle", "done"} /\ pc' = "reading"

Durations == Overrides \cup SetTimeoutArgs \cup {DefaultTimeout, -50, -1, 1}

\* C4: when a handler with override T is selected while the process default is
\* D, the effective timeout is D if T = 0 and T otherwise, whatever D is and
\* whatever the other handlers' overrides are; the first-non-zero formulation
\* agrees with the explicit check, for the selected handler and for every
\* override and fallback.
C4_Resolved ==
  Selecting =>
    /\ setting' = IF handlers[h'].Timeout = 0 THEN timeout ELSE handlers[h'].Timeout
    /\ setting' = OrElseV1(handlers[h'], timeout)
    /\ \A t \in Durations, d \in Durations :
         OrElseV0([Timeout |-> t], d) = OrElseV1([Timeout |-> t], d)

\* C4: every step that selects a handler resolves the effective timeout so.
C4_EffectiveTimeoutResolution == [][C4_Resolved]_vars

C4_Witness ==
  /\ pc = "reading" /\ h = 2
  /\ handlers[1].Timeout = 0 /\ handlers[2].Timeout # 0
  /\ timeout # DefaultTimeout
  /\ setting = handlers[2].Timeout

\* C5: the effective timeout computed for a request is strictly positive.
C5_EffectiveTimeoutPositive == (Served /\ h # 0) => setting > 0

\* C6: for every request that selected a handler, the read deadline is the
\* deadline of the context passed to Handle and the write deadline is that
\* time plus the 100 ms extension, so strictly later; both hold from the
\* moment the body read starts.
C6_ConnectionDeadlines ==
  (Served /\ h # 0) =>
    /\ readDeadline = deadline
    /\ writeDeadline = deadline + writeDeadlineExtension
    /\ writeDeadline > deadline

C6_Witness ==
  /\ pc = "reading" /\ now > 0 /\ setting > 0
  /\ deadline = now + setting
  /\ readDeadline = deadline /\ writeDeadline = deadline + 100

\* Handle has returned, after the context's deadline and before the write deadline
HandleOverranWithinGrace ==
  /\ handleEnd # Never
  /\ handleEnd > deadline
  /\ handleEnd < deadline + writeDeadlineExtension

C8_LateHandleDropped ==
  (pc = "done" /\ handleEnd # Never
     /\ handleEnd >= deadline + writeDeadlineExtension) =>
    client = "EOF"

C8_Witness ==
  /\ pc = "done" /\ setting > 0
  /\ handleEnd >= deadline + writeDeadlineExtension
  /\ e = NoError /\ Invoked("Response") /\ status = StatusOK
  /\ client = "EOF"

\* C9: if io.ReadAll fails (the body is not complete when the read deadline
\* passes, or another I/O error), the request ends with status 500 and no
\* body, and Parse, Handle and Response are never invoked; a read still
\* waiting for the body when the read deadline has passed can only end so.
C9_ReadFailureIs500 ==
  (err \in {ErrDeadlineExceeded, ErrConnection}) =>
    /\ pc = "done"
    /\ status = StatusInternalServerError /\ body = <<>>
    /\ ~Invoked("Parse") /\ ~Invoked("Handle") /\ ~Invoked("Response")

C9_DeadlineEndsRead ==
  (pc = "reading" /\ ~request.buffered /\ now >= readDeadline /\ pc' # "reading") =>
    /\ err' = ErrDeadlineExceeded
    /\ pc' = "done" /\ status' = StatusInternalServerError
    /\ calls' = calls

\* C9: a failed body read ends the request with 500 and nothing invoked.
C9_ReadFailure == [](C9_ReadFailureIs500) /\ [][C9_DeadlineEndsRead]_vars

C9_Witness ==
  /\ pc = "done" /\ err = ErrDeadlineExceeded
  /\ setting > 0 /\ now >= readDeadline
  /\ status = StatusInternalServerError /\ ~Invoked("Parse")
  /\ client = "response"

\* C10: if Parse returns an error, the request ends with status 400 and a
\* diagnostic body naming the request and the parse error, and Handle and
\* Response are never invoked.
C10_ParseFailureIs400 ==
  (err \in ParseErrs) =>
    /\ pc = "done"
    /\ status = StatusBadRequest
    /\ body = <<"can not parse req", request.method, request.path, "as", err>>
    /\ Invoked("Parse") /\ ~Invoked("Handle") /\ ~Invoked("Response")

C10_Witness ==
  /\ pc = "done" /\ err \in ParseErrs
  /\ status = StatusBadRequest /\ client = "response"
  /\ calls[Len(calls)] = <<"Parse", h>>

\* C11: if Handle returns a Coded Error, the status written is the error's
\* code and the body is the text of its cause (Err.Error(), without the
\* "<code>: " prefix), and Response is never invoked, for every code value.
C11_CodedErrorWritten ==
  (e # NoError) =>
    /\ pc = "done"
    /\ status = e.Code
    /\ body = <<e.Err>>
    /\ ~Invoked("Response")

\* integer codes on which the classification is tried
CodeRange == -1000..1000

\* IsUserFault is true exactly on 400..499
C12_FamilyOnly ==
  \A c \in CodeRange : IsUserFault(c) <=> (c >= 400 /\ c <= 499)

\* C12: the severity of a Coded Error's log entry depends only on the family
\* of its code: IsUserFault(code) is true exactly for 400 <= code <= 499
\* (logged as a warning) and false for every other integer, 0, negative
\* codes, 2xx and 5xx included (logged as an error).
C12_SeverityByFamily ==
  /\ C12_FamilyOnly
  /\ (e # NoError) =>
       logged = IF e.Code >= 400 /\ e.Code <= 499 THEN "WARN" ELSE "ERROR"

C12_Witness ==
  /\ pc = "done" /\ e # NoError
  /\ e.Code = 401 /\ logged = "WARN"
  /\ ~IsUserFault(-401) /\ ~IsUserFault(0) /\ ~IsUserFault(500)

\* the terminal outcomes of ServeHTTP that hold of the current state
TerminalOutcomes ==
  { o \in {"preflight", "unmatched", "read", "parse", "coded", "respond"} :
      \/ o = "preflight" /\ allowCORS /\ request.method = "OPTIONS"
                         /\ status = StatusAccepted
      \/ o = "unmatched" /\ ~(allowCORS /\ request.method = "OPTIONS")
                         /\ h = 0 /\ status = StatusNotAcceptable
      \/ o = "read" /\ err \in {ErrDeadlineExceeded, ErrConnection}
                    /\ status = StatusInternalServerError
      \/ o = "parse" /\ err \in ParseErrs /\ status = StatusBadRequest
      \/ o = "coded" /\ e # NoError /\ status # 0 /\ status = e.Code
      \/ o = "respond" /\ Invoked("Response") }

\* the capabilities invoked after the Match calls of handler selection
AfterSelection == SelectSeq(calls, LAMBDA c : c[1] # "Match")

\* selection, Parse, Handle and Response run at most once each, in that order,
\* each only after the step before it succeeded
C13_InOrderOnce ==
  /\ \A i \in 1..Len(calls) : \A j \in 1..Len(calls) :
       (calls[i][1] # "Match" /\ calls[j][1] = "Match") => j < i
  /\ \A i \in 1..Len(AfterSelection) :
       /\ i <= 3
       /\ AfterSelection[i] = << <<"Parse", "Handle", "Response">>[i], h >>
  /\ Invoked("Parse") => err \notin {ErrDeadlineExceeded, ErrConnection}
  /\ Invoked("Handle") => err = NoErr
  /\ Invoked("Response") <=> (handleEnd # Never /\ e = NoError)
  /\ Invoked("Response") => (err = NoErr /\ e = NoError)

\* a request that is over has exactly one terminal outcome
C13_OneTerminalOutcome ==
  (pc = "done") => Cardinality(TerminalOutcomes) = 1

\* C13: every request ends in exactly one terminal outcome among 202
\* preflight, 406 no match, 500 read failure, 400 parse failure, coded-error
\* status and Response; selection, read, Parse, Handle and Response run at
\* most once and in that order, Parse only after a successful read, Handle
\* only after a successful Parse, Response iff Handle returned no Coded
\* Error, and never an error status together with Response.
C13_Lifecycle == C13_InOrderOnce /\ C13_OneTerminalOutcome

\* a step taken while Handle runs: either Handle is still running and nothing
\* was written, or Handle itself returned, and a returned output goes to Response
C14_OnlyHandleEndsHandle ==
  (pc = "handling") =>
    \/ /\ pc' = "handling"
       /\ UNCHANGED <<status, body, headers, client, calls, e, handleEnd>>
    \/ /\ handleEnd' = now
       /\ \/ e' # NoError /\ pc' = "done"
          \/ /\ e' = NoError
             /\ pc' = "responding"
             /\ calls' = Append(calls, <<"Response", h>>)
             /\ UNCHANGED <<status, body, client>>

\* once Handle has returned an output, Response has been invoked, whenever
\* Handle returned
C14_OutputIsResponded ==
  (handleEnd # Never /\ e = NoError) => Invoked("Response")

\* C14: expiry of the request deadline never stops a running Handle and never
\* makes the Dispatcher write a response of its own; whenever Handle returns
\* an output, Response is invoked, also when the deadline expired before
\* Handle returned.
C14_CancellationAdvisory ==
  [](C14_OutputIsResponded) /\ [][C14_OnlyHandleEndsHandle]_vars

C14_Witness ==
  /\ pc = "responding" /\ setting > 0
  /\ handleEnd > deadline /\ e = NoError
  /\ calls[Len(calls)] = <<"Response", h>>
  /\ status = 0

\* ----------------------------------------------------- event stream claims
\* the frame of one event as the stream format has it: the event line iff the
\* type label is not empty, one data line per content line, one blank line
ExpectedFrame(ev) ==
  LET dataLines == [i \in 1..Len(ev.Lines) |-> <<"data: ", ev.Lines[i]>>]
      blank == << <<"">> >>
  IN IF ev.TypeOptional = "" THEN dataLines \o blank
     ELSE << <<"event: ", ev.TypeOptional>> >> \o dataLines \o blank

\* the frames of a sequence of events, each followed by one flush
RECURSIVE ExpectedStream(_)
ExpectedStream(evs) ==
  IF evs = <<>> THEN <<>>
  ELSE ExpectedFrame(Head(evs)) \o <<FlushCall>> \o ExpectedStream(Tail(evs))

\* the events received before the one Response is working on
SentBefore ==
  IF transport \in {"write", "flush"} THEN SubSeq(sent, 1, Len(sent) - 1) ELSE sent

RECURSIVE DecodeFrom(_, _, _)
DecodeFrom(o, cur, acc) ==
  IF o = <<>> THEN acc
  ELSE LET x == Head(o)
       IN IF x = FlushCall THEN DecodeFrom(Tail(o), cur, acc)
          ELSE IF x = <<"">>
            THEN DecodeFrom(Tail(o), MessageEvent("", <<>>), Append(acc, cur))
          ELSE IF x[1] = "event: "
            THEN DecodeFrom(Tail(o), [cur EXCEPT !.TypeOptional = x[2]], acc)
          ELSE DecodeFrom(Tail(o), [cur EXCEPT !.Lines = Append(@, x[2])], acc)

Decode(o) == DecodeFrom(o, MessageEvent("", <<>>), <<>>)

IsPrefix(a, b) == Len(a) <= Len(b) /\ a = SubSeq(b, 1, Len(a))

\* the stream headers are set before anything is written, and the frames
\* written are a prefix of the events sent on the channel
C16_HeadersThenPrefix ==
  /\ (out # <<>> \/ sent # <<>>) =>
       { <<"Content-Type", "text/event-stream">>,
         <<"Cache-Control", "no-cache">>,
         <<"Connection", "keep-alive">> } \subseteq streamHeader
  /\ IsPrefix(Decode(out), sent)

\* what was sent and what was written only grow at the end
C16_AppendOnly == IsPrefix(sent, sent') /\ IsPrefix(out, out')

\* C16: the stream headers are set before any event is written, and the event
\* frames written are always a prefix of the events the producer sent on the
\* channel: none is reordered, duplicated or skipped.
C16_StreamOrdering == [](C16_HeadersThenPrefix) /\ [][C16_AppendOnly]_vars

C16_Witness ==
  /\ transport = "write" /\ Len(sent) = 3
  /\ sent[1] # sent[2]
  /\ Decode(out) = SubSeq(sent, 1, 2)

\* C17: when the producer closes the channel and no flush fails, the loop ends
\* without error after every event sent before the close was written and
\* flushed; a channel closed with no event gives the stream headers only.
C17_CloseEndsStream ==
  /\ (transport = "range" /\ producer = "returned") => ENABLED RangeClosed
  /\ (transport = "returned" /\ ~flushErr) =>
       /\ producer = "returned"
       /\ pc = "done" /\ logged = "" /\ status = 0
       /\ out = ExpectedStream(sent)
       /\ Decode(out) = sent
       /\ sent = <<>> =>
            /\ out = <<>>
            /\ streamHeader = { <<"Content-Type", "text/event-stream">>,
                                <<"Cache-Control", "no-cache">>,
                                <<"Connection", "keep-alive">> }

C17_Witness ==
  /\ transport = "returned" /\ ~flushErr
  /\ producer = "returned" /\ item = itemSize
  /\ Len(sent) = itemSize /\ Decode(out) = sent

\* after a failed flush Response has returned, and the failed flush is the last
\* thing it did
C18_StoppedAfterFailure ==
  flushErr =>
    /\ transport = "returned" /\ pc = "done"
    /\ out[Len(out)] = FlushCall
    /\ out = ExpectedStream(sent)
    /\ status = 0 /\ body = <<>>

\* after a failed flush nothing is received and nothing is written
C18_NothingAfterFailure ==
  flushErr => UNCHANGED <<sent, me, out, transport, streamHeader, status, body>>

\* C18: if a flush fails, Response stops at once: it receives no further event
\* from the channel, writes nothing more, does not retry the event and
\* reports no status to the client.
C18_FlushFailureStops ==
  [](C18_StoppedAfterFailure) /\ [][C18_NothingAfterFailure]_vars

C18_Witness ==
  /\ flushErr /\ ~writeExpired
  /\ transport = "returned"
  /\ producer = "returned" /\ Len(sent) = 2 /\ item = 2

\* Response is blocked in its receive while the producer neither sends nor closes
C19_BlockedWithoutProducer ==
  (transport = "range" /\ producer = "select") => ~ENABLED TransportNext

\* Response returns only on a closed channel or a failed flush
C19_ReturnsOnlyOnCloseOrFailure ==
  (transport # "returned" /\ transport' = "returned") =>
    (producer = "returned" \/ flushErr')

\* C19: the stream loop returns only when the producer's channel is closed or a
\* flush has failed; while the producer neither closes nor sends, the loop is
\* blocked, also after the request deadline and the write deadline expired.
C19_NeverForcedToEnd ==
  [](C19_BlockedWithoutProducer) /\ [][C19_ReturnsOnlyOnCloseOrFailure]_vars

C19_Witness ==
  /\ transport = "range" /\ producer = "select"
  /\ ctxDone /\ writeExpired
  /\ Len(sent) = 1

\* C20: once the request's cancellation signal has fired, the producer
\* eventually returns and closes its channel, in every interleaving with
\* Response, also when Response has stopped receiving after a failed flush.
C20_ProducerEventuallyCloses == ctxDone ~> (producer = "returned")

\* C21: the context passed to Handle descends from the request's context: when
\* the client goes away, it is done from that moment on, before its deadline
\* too, and a producer that waits on ctx.Done() can take that branch.
C21_ClientGoneCancels ==
  /\ clientGone => ctxDone
  /\ (clientGone /\ producer = "select" /\ item < itemSize) => ENABLED PassCtxDone

C21_Witness ==
  /\ clientGone /\ ~deadlinePassed /\ ctxDone
  /\ transport = "range"
  /\ producer = "returned" /\ item = 1

\* ------------------------------------------------- library call claims
\* C22: in every Handle invocation DetachToken returns the value of the
\* request's Token header, the empty string when the header is absent, and
\* does not fail; DetachToken(AttachToken(ctx, t)) = t for every ctx and t.
C22_TokenRoundTrip ==
  /\ \A ctx \in ParentContexts, t \in Tokens :
       DetachToken(AttachToken(ctx, t)) = [panic |-> FALSE, token |-> t]
  /\ (fn = "DetachToken" /\ called) =>
       /\ ~ret.panic
       /\ \A t \in Tokens : <<"Token", t>> \in args.header => ret.token = t
       /\ (\A t \in Tokens : <<"Token", t>> \notin args.header) => ret.token = ""

C22_Witness ==
  /\ fn = "DetachToken" /\ called
  /\ args.header = {<<"Origin", "http://o">>}
  /\ args.parent = << [key |-> "token", val |-> "outer"] >>
  /\ ret = [panic |-> FALSE, token |-> ""]

\* the path without its leading and trailing slashes
Stripped(path) ==
  LET keep == {i \in 1..Len(path) : path[i] # "/"}
  IN IF keep = {} THEN <<>>
     ELSE SubSeq(path, CHOOSE i \in keep : \A j \in keep : i <= j,
                       CHOOSE i \in keep : \A j \in keep : j <= i)

\* the segments of the stripped path: the stretches between its slashes
Segments(path) ==
  LET t == Stripped(path)
      slashes == {i \in 1..Len(t) : t[i] = "/"}
      n == Cardinality(slashes) + 1
      cut(k) == IF k = 0 THEN 0
                ELSE IF k = n THEN Len(t) + 1
                ELSE CHOOSE i \in slashes : Cardinality({j \in slashes : j <= i}) = k
  IN [k \in 1..n |-> SubSeq(t, cut(k - 1) + 1, cut(k) - 1)]

Unsigned(seg) == IF seg # <<>> /\ seg[1] \in {"+", "-"} THEN Tail(seg) ELSE seg

IsInteger(seg) ==
  Unsigned(seg) # <<>> /\ \A i \in 1..Len(Unsigned(seg)) : Unsigned(seg)[i] \in Digits

RECURSIVE PlaceSum(_, _)
PlaceSum(d, i) ==
  IF i > Len(d) THEN 0 ELSE DigitValue(d[i]) * 10 ^ (Len(d) - i) + PlaceSum(d, i + 1)

IntegerOf(seg) ==
  IF seg[1] = "-" THEN 0 - PlaceSum(Unsigned(seg), 1) ELSE PlaceSum(Unsigned(seg), 1)

ExampleParts ==
  << <<"u", "s", "e", "r", "s">>, <<>>, <<"i", "t", "e", "m", "s">>, <<>> >>

ExamplePath ==
  << "/", "u", "s", "e", "r", "s", "/", "1", "2", "3", "/",
     "i", "t", "e", "m", "s", "/", "4", "5", "6" >>

\* C23: for a non-empty specifier list the predicate of ResourceWithIDs is true
\* iff the method is the given one and the stripped path has as many segments
\* as there are specifiers, every literal equal to its segment and every
\* placeholder segment an integer; when it is true the extraction function
\* returns, without error, the integers at the placeholders in path order;
\* GET /users/123/items/456 against [users, "", items, ""] gives [123, 456].
C23_ResourceMatcher ==
  /\ ResourceWithIDs("GET", ExampleParts, [Method |-> "GET", Path |-> ExamplePath])
       = [match |-> TRUE,
          parsed |-> [ids |-> <<123, 456>>, err |-> FALSE, panic |-> FALSE]]
  /\ (fn = "ResourceWithIDs" /\ called /\ args.parts # <<>>) =>
       LET parts == args.parts
           segs == Segments(args.req.Path)
           holes == {i \in 1..Len(parts) : parts[i] = <<>>}
           hole(k) == CHOOSE i \in holes : Cardinality({j \in holes : j <= i}) = k
       IN /\ ret.match <=>
               /\ args.req.Method = args.method
               /\ Len(segs) = Len(parts)
               /\ \A i \in 1..Len(parts) :
                    IF parts[i] # <<>> THEN segs[i] = parts[i]
                    ELSE IsInteger(segs[i])
          /\ ret.match =>
               /\ ~ret.parsed.panic /\ ~ret.parsed.err
               /\ Len(ret.parsed.ids) = Cardinality(holes)
               /\ \A k \in 1..Len(ret.parsed.ids) :
                    ret.parsed.ids[k] = IntegerOf(segs[hole(k)])

C23_Witness ==
  /\ fn = "ResourceWithIDs" /\ called
  /\ args.parts = << <<>>, <<>> >>
  /\ args.req.Path = <<"/", "1", "/", "2">>
  /\ ret.match /\ ret.parsed.ids = <<1, 2>>

\* the path with a leading or a trailing slash added, or removed where it has one
SlashVariants(path) ==
  {<<"/">> \o path, path \o <<"/">>}
    \cup (IF path # <<>> /\ Head(path) = "/" THEN {Tail(path)} ELSE {})
    \cup (IF path # <<>> /\ path[Len(path)] = "/"
            THEN {SubSeq(path, 1, Len(path) - 1)} ELSE {})

\* C24: for every specifier list, method and path, the predicate and the
\* extraction function of ResourceWithIDs give the same results for the path
\* and for the path with a leading or trailing slash added or removed.
C24_SlashInvariance ==
  (fn = "ResourceWithIDs" /\ called) =>
    \A v \in SlashVariants(args.req.Path) :
      ResourceWithIDs(args.method, args.parts, [args.req EXCEPT !.Path = v]) = ret

C24_Witness ==
  /\ fn = "ResourceWithIDs" /\ called
  /\ args.req.Path = <<"/", "u", "/", "1", "/">>
  /\ ret.match /\ ret.parsed.ids = <<1>>

\* C25: MatchAll(p1..pn) is true for a request iff every pi is (true for
\* n = 0); the predicates are evaluated in the given order, and none after
\* the first that fails.
C25_MatchAllConjunction ==
  (fn = "MatchAll" /\ called) =>
    LET r == args.results
        fails == {i \in 1..Len(r) : ~r[i]}
        last == IF fails = {} THEN Len(r) ELSE CHOOSE i \in fails : \A j \in fails : i <= j
    IN /\ ret.result <=> (fails = {})
       /\ ret.evaluated = [i \in 1..last |-> i]

C25_Witness ==
  /\ fn = "MatchAll" /\ called
  /\ args.results = <<TRUE, FALSE, TRUE>>
  /\ ~ret.result /\ ret.evaluated = <<1, 2>>

\* C30: for an empty specifier list the predicate of ResourceWithIDs is true
\* iff the method is the given one and the stripped path has no segments (the
\* root path "/" for one), and false for every path with a segment.
C30_EmptySpecifiers ==
  (fn = "ResourceWithIDs" /\ called /\ args.parts = <<>>) =>
    (ret.match <=> (args.req.Method = args.method /\ Stripped(args.req.Path) = <<>>))

\* ------------------------------------------------ closure handler Respond
\* a step in which Response of the selected closure handler runs and returns
Responding == pc = "responding" /\ pc' = "done"

\* the calls on the writer made in the step
Ops == SubSeq(written', Len(written) + 1, Len(written'))

SetsContentType(op) == op.op = "Header.Set" /\ op.key = "Content-Type"

\* the formatter failed: status 500, no body bytes, no Content-Type, an error
\* logged, and the Dispatcher's record of the request's errors untouched
FormatFailed ==
  /\ status' = StatusInternalServerError
  /\ body' = <<>>
  /\ \A i \in 1..Len(Ops) : Ops[i].op # "Write" /\ ~SetsContentType(Ops[i])
  /\ \A kv \in headers' : kv[1] # "Content-Type"
  /\ logged' = "ERROR"
  /\ UNCHANGED <<err, e, calls>>

\* the formatter succeeded: the declared Content-Type is set, then the bytes are
\* written, and no error status is written
Formatted ==
  /\ \E i, j \in 1..Len(Ops) :
       /\ i < j
       /\ Ops[i] = HeaderSet("Content-Type", handlers[h].contentType)
       /\ Ops[j].op = "Write" /\ Ops[j].val = body'
       /\ \A k \in 1..Len(Ops) : Ops[k].op = "Write" => k > i
  /\ <<"Content-Type", handlers[h].contentType>> \in headers'
  /\ \A kv \in headers' : kv[1] = "Content-Type" => kv[2] = handlers[h].contentType
  /\ body' # <<>>
  /\ \A k \in 1..Len(Ops) : Ops[k].op # "WriteHeader"
  /\ status' = StatusOK
  /\ UNCHANGED <<err, e, calls, logged>>

\* C26: when Response of a closure handler runs, either the formatter failed
\* (status 500, no body bytes and no Content-Type written, nothing handed back
\* to the Dispatcher), or the Content-Type is set to the handler's declared
\* content type before the formatted bytes are written and no error status is
\* written.
C26_ClosureRespond == [][Responding => (FormatFailed \/ Formatted)]_vars

C26_Witness ==
  /\ pc = "done" /\ h # 0
  /\ calls # <<>> /\ calls[Len(calls)] = <<"Response", h>>
  /\ status = StatusInternalServerError /\ body = <<>>
  /\ written # <<>> /\ written[Len(written)] = WriteHeader(StatusInternalServerError)
  /\ \A kv \in headers : kv[1] # "Content-Type"
  /\ allowCORS /\ handlers[h].contentType = JSONContentType

\* --------------------------------------------------- the default timeout
\* the handler that served the last request is selected again
SameHandlerAgain == pc = "done" /\ h # 0 /\ Selecting /\ h' = h

\* C27: a SetTimeout call made after the Dispatcher has started serving does
\* not take effect: a handler that served one request serves the next with the
\* same effective timeout, whatever SetTimeout calls were made in between.
C27_SetTimeoutSetupOnly == [][SameHandlerAgain => setting' = setting]_vars

\* what NewWeb and the setup of the process fix: the handler list with each
\* handler's override, the CORS flag and the default timeout
configuration == <<handlers, allowCORS, timeout>>

\* a step of ServeHTTP or of a handler it called, or time passing in one
ServingStep ==
  <<now, pc, request, h, setting, deadline, readDeadline, writeDeadline, err, e,
    handleEnd, status, body, headers, calls, written, logged, client>>' #
  <<now, pc, request, h, setting, deadline, readDeadline, writeDeadline, err, e,
    handleEnd, status, body, headers, calls, written, logged, client>>

\* C28: serving requests leaves the handler list (members and order), the
\* CORS flag, each handler's timeout override and the process-wide default
\* timeout unchanged.
C28_ServingLeavesConfiguration == [][ServingStep => UNCHANGED configuration]_vars

C28_Witness ==
  /\ pc = "done" /\ status = StatusOK
  /\ allowCORS /\ timeout = 100
  /\ Len(handlers) = 2 /\ h = 2
  /\ handlers[1].Timeout # 0 /\ handlers[2].Timeout = 0
  /\ setting = 100

\* --------------------------------------------------- concurrent requests
\* what is written for a request served with no other request in flight
AloneSink(req, behaviour) ==
  IF behaviour = "output"
    THEN << HeaderSet("Content-Type", handlers[findHandler(req)].contentType),
            Write(<<"output">>) >>
  ELSE << WriteHeader(StatusInternalServerError), Write(<<"timeout">>) >>

\* C29: with requests served concurrently, each request has the deadline its
\* own handler and arrival give it; its context is cancelled only by its own
\* deadline, its own client or its own return; only its own ServeHTTP writes to
\* its sink; and what it ends with is what it would end with served alone.
C29_RequestIsolation ==
  \A r \in Slots :
    LET s == serving[r]
    IN /\ s.pc # "idle" =>
            s.deadline = s.start + withTimeout(handlers[findHandler(s.req)])
       /\ (s.pc = "handling" /\ s.done) => (s.gone \/ now >= s.deadline)
       /\ \A i \in 1..Len(sinks[r]) : sinks[r][i].by = r
       /\ s.pc # "done" => sinks[r] = <<>>
       /\ s.pc = "done" =>
            /\ sinks[r] = By(r, AloneSink(s.req, s.behaviour))
            /\ s.behaviour = "wait" => (s.gone \/ s.end >= s.deadline)

C29_Witness ==
  /\ serving[1].pc = "done" /\ serving[1].behaviour = "wait" /\ ~serving[1].gone
  /\ serving[2].pc = "handling" /\ serving[2].behaviour = "wait"
  /\ serving[2].start <= serving[1].start
  /\ ~serving[2].done /\ sinks[2] = <<>>

\* ------------------------------------------- extraction outside the predicate
\* C31: on a path the predicate of ResourceWithIDs rejects, the extraction
\* function does not fail and reports no error: it returns one integer per
\* placeholder, 0 for a placeholder segment that does not parse.
C31_ExtractionTotal ==
  (fn = "ResourceWithIDs" /\ called /\ ~ret.match) =>
    LET parts == args.parts
        segs == Segments(args.req.Path)
        holes == {i \in 1..Len(parts) : parts[i] = <<>>}
        hole(k) == CHOOSE i \in holes : Cardinality({j \in holes : j <= i}) = k
    IN /\ ~ret.parsed.panic
       /\ ~ret.parsed.err
       /\ Len(ret.parsed.ids) = Cardinality(holes)
       /\ \A k \in 1..Len(ret.parsed.ids) :
            ret.parsed.ids[k] =
              IF hole(k) <= Len(segs) /\ IsInteger(segs[hole(k)])
                THEN IntegerOf(segs[hole(k)]) ELSE 0

\* ------------------------------------------------ the single-ID variant
\* the stretches of a path
Stretches(path) == {SubSeq(path, i, j) : i \in 1..Len(path) + 1, j \in 0..Len(path)}

\* the path is prefix + s + suffix, with s an integer
IDBetween(path, prefix, suffix, s) == IsInteger(s) /\ path = prefix \o s \o suffix

\* C32: the predicate of ResourceWithID is true iff the method is the given one
\* and the path is prefix + s + suffix for some s that parses as an integer;
\* for a prefix that ends in a slash, whenever it is true PathIDParser(suffix)
\* returns that integer for the path, with a nil error.
C32_SingleID ==
  (fn = "ResourceWithID" /\ called) =>
    LET path == args.req.Path
        ids == {s \in Stretches(path) : IDBetween(path, args.prefix, args.suffix, s)}
    IN /\ ret.match <=> (args.req.Method = args.method /\ ids # {})
       /\ (ret.match /\ args.prefix # <<>> /\ args.prefix[Len(args.prefix)] = "/") =>
            /\ ~ret.parsed.err
            /\ \A s \in ids : ret.parsed.num = IntegerOf(s)

C32_Witness ==
  /\ fn = "ResourceWithID" /\ called
  /\ args.prefix = <<"/">> /\ args.suffix = <<"/", "u">>
  /\ args.req.Path = <<"/", "1", "2", "/", "u">>
  /\ ret = [match |-> TRUE, parsed |-> [num |-> 12, err |-> FALSE]]

\* --------------------------------------------------- the request's deadline
InFlight == pc \in {"reading", "parsing", "handling", "responding"}

\* what a step does to the deadline: selection sets it to the time of selection
\* plus the effective timeout; no step of a request in flight, and no
\* SetTimeout meanwhile, changes it or the effective timeout; the step from
\* Parse to Handle calls Handle with what is left of it
DeadlineStep ==
  /\ Selecting => deadline' = now + setting' /\ now' = now
  /\ InFlight => deadline' = deadline /\ setting' = setting
  /\ (pc = "parsing" /\ pc' = "handling") =>
       /\ calls' = Append(calls, <<"Handle", h>>)
       /\ deadline' - now' = deadline - now

\* C33: the deadline of a request is fixed once, at handler selection, as the
\* time of selection plus the Effective Timeout; nothing extends or recomputes
\* it afterwards, a later SetTimeout included; reading and parsing use up the
\* budget left to Handle, and Handle is invoked even when the deadline has
\* passed by the time Parse returns.
C33_DeadlineFixedOnce ==
  /\ [][DeadlineStep]_vars
  /\ [](pc = "parsing" => ENABLED ParseOK)

C33_Witness ==
  /\ pc = "handling" /\ h # 0
  /\ calls[Len(calls)] = <<"Handle", h>>
  /\ handlers[h].Timeout = 0 /\ setting = 100 /\ timeout = 0
  /\ deadline = 100 /\ now >= deadline

\* --------------------------------------------------- the deferred cancel
\* ServeHTTP returns for a request that had selected a handler
Returning == InFlight /\ pc' = "done"

\* C34: for every request that selected a handler the context is cancelled
\* when ServeHTTP returns, on every exit path (read failure, parse failure,
\* Coded Error, Response finished, stream ended by close or by flush failure);
\* before that the Dispatcher does not cancel it, and the context of a stream
\* is done only because of the deadline or the client going away.
C34_CancelledOnReturn ==
  /\ [][Returning => (~cancelled /\ cancelled')]_vars
  /\ []((pc = "done" /\ h # 0) => cancelled)
  /\ [](InFlight => ~cancelled)
  /\ [](transport = "returned" => (cancelled /\ ctxDone))
  /\ []((InFlight /\ transport # "none" /\ ctxDone) => (clientGone \/ deadlinePassed))

C34_Witness ==
  /\ pc = "done" /\ h # 0 /\ cancelled
  /\ transport = "returned" /\ flushErr
  /\ ctxDone /\ ~clientGone /\ ~deadlinePassed

\* ------------------------------------------------------------------- CORS
AccessControl ==
  { "Access-Control-Allow-Origin", "Access-Control-Allow-Methods",
    "Access-Control-Allow-Headers", "Access-Control-Max-Age" }

\* values of the Origin header, "" for a request without one
OriginValues == {"", "http://o", "http://p"}

\* C35: with CORS enabled every response (preflight, 406, 500, 400, Coded
\* Error, Response) carries Access-Control-Allow-Origin equal to the request's
\* Origin header; with CORS disabled no Access-Control header is set and an
\* OPTIONS request is dispatched like any other (406 if no handler matches).
C35_CORSHeaders ==
  /\ \A o \in OriginValues :
       CORSHeaders([NoRequest EXCEPT !.origin = o]) =
         IF allowCORS THEN {<<"Access-Control-Allow-Origin", o>>} ELSE {}
  /\ (Served /\ allowCORS) =>
       /\ <<"Access-Control-Allow-Origin", request.origin>> \in headers
       /\ \A kv \in headers :
            kv[1] = "Access-Control-Allow-Origin" => kv[2] = request.origin
       /\ written # <<>>
       /\ written[1] = HeaderSet("Access-Control-Allow-Origin", request.origin)
  /\ (Served /\ ~allowCORS) =>
       /\ \A kv \in headers : kv[1] \notin AccessControl
       /\ \A i \in 1..Len(written) : written[i].key \notin AccessControl
  /\ (pc = "done" /\ ~allowCORS /\ request.method = "OPTIONS") =>
       IF Matching = {} THEN status = StatusNotAcceptable /\ h = 0
       ELSE h \in Matching /\ \A i \in Matching : h <= i

C35_Witness ==
  /\ pc = "done" /\ allowCORS /\ h # 0
  /\ status = StatusBadRequest
  /\ headers = {<<"Access-Control-Allow-Origin", request.origin>>}

\* ------------------------------------------------ the stream's time budget
RECURSIVE Flushes(_)
Flushes(o) ==
  IF o = <<>> THEN 0
  ELSE (IF Head(o) = FlushCall THEN 1 ELSE 0) + Flushes(Tail(o))

\* the events that reached the client: those whose flush succeeded
Delivered == Flushes(out) - (IF flushErr THEN 1 ELSE 0)

\* the stream handler has no override, its budget is the process default, and
\* the write deadline is that budget plus the grace
C36_Budget ==
  transport # "none" =>
    /\ handlers[h].Timeout = 0 /\ setting = timeout
    /\ writeDeadline = now + setting + writeDeadlineExtension
    /\ writeExpired => deadlinePassed

\* at a flush after the write deadline only the failure is possible
C36_FlushMustFail ==
  (transport = "flush" /\ writeExpired) => (~ENABLED FlushOK /\ ENABLED FlushFail)

\* after the write deadline nothing more is delivered, and the flush that comes
\* ends the stream
C36_NothingDeliveredLate ==
  writeExpired =>
    /\ Delivered' = Delivered
    /\ (transport = "flush" /\ transport' # "flush") =>
         /\ flushErr' /\ transport' = "returned" /\ pc' = "done"

\* C36: no event whose flush happens after the write deadline (effective
\* timeout plus 100 ms) is delivered to the client; the first such flush fails
\* and ends the stream; the stream handler runs on the process default.
C36_StreamBoundedByBudget ==
  /\ [](C36_Budget)
  /\ [](C36_FlushMustFail)
  /\ [][C36_NothingDeliveredLate]_vars

C36_Witness ==
  /\ transport = "returned" /\ flushErr
  /\ writeExpired /\ ~clientGone
  /\ Len(sent) = 2 /\ Delivered = 1

====
